---- MODULE Spec2Model ----
(***************************************************************************)
(* Model of the Indonesian RAG pipeline: the sentence-aware chunker        *)
(* (src/data/text_splitter.py), the vector store (src/data/vector_store.py)*)
(* the retriever, the answer generator and the pipeline orchestration.     *)
(*                                                                         *)
(* Text is a sequence of one-character strings, so that splitting,         *)
(* stripping, word counting and joining are computed as the code computes  *)
(* them.                                                                   *)
(***************************************************************************)
EXTENDS Integers, Sequences, FiniteSets, TLC

VARIABLES
    chunk_size,      \* IndonesianTextSplitter.chunk_size
    chunk_overlap,   \* IndonesianTextSplitter.chunk_overlap
    phase,           \* position of the chunker run
    documents,       \* argument of split_documents
    all_chunks,      \* value returned by split_documents
    sentences,       \* argument of create_chunks
    chunks,          \* value returned by create_chunks
    buffers,         \* value of current_chunk at each chunks.append of create_chunks
    collection,      \* VectorStore.collection: "unset" or "handle"
    records,         \* the records of the collection indonesian_documents, oldest first
    records_before,  \* records as they were when the last operation started
    next_id,         \* number of uuid4 values drawn so far
    clock,           \* number of add_documents calls so far (datetime.now)
    model_type,      \* IndonesianGenerator.model_type
    config_model_type, \* settings.model_config.model_type
    stored_collections, \* collections named indonesian_documents in the store
    load_failed,     \* whether the first model load of IndonesianGenerator.__init__ raised
    last             \* the last operation: its arguments, collaborator calls and result

chunkerVars == <<chunk_size, chunk_overlap, phase, documents, all_chunks,
                 sentences, chunks, buffers>>

indexVars == <<collection, records, records_before, next_id, clock, model_type,
               config_model_type, load_failed, stored_collections, last>>

vars == <<chunkerVars, indexVars>>

----------------------------------------------------------------------------
(* Bounds of the model *)

MaxTotalLen == 6     \* characters in all documents of one split_documents call
MaxSentences == 4    \* sentences in one create_chunks call
MaxChunkSize == 2    \* chunk_size ranges over 1..MaxChunkSize
MaxOverlap == 2      \* chunk_overlap ranges over 0..MaxOverlap

----------------------------------------------------------------------------
(* Text helpers *)

Min(a, b) == IF a < b THEN a ELSE b
Max(a, b) == IF a > b THEN a ELSE b

\* str.isspace for the characters of the model
Whitespace == {" ", "\n"}

\* the character class [.!?।] of sentence_endings
Terminators == {".", "!", "?"}

\* characters a document is made of
Alphabet == {"a", ".", "\n"}

\* s[i:] of Python, i counted from 0
Drop(s, i) == SubSeq(s, i + 1, Len(s))

RECURSIVE LStrip(_)
LStrip(s) ==
    IF s # <<>> /\ Head(s) \in Whitespace THEN LStrip(Tail(s)) ELSE s

RECURSIVE RStrip(_)
RStrip(s) ==
    IF s # <<>> /\ s[Len(s)] \in Whitespace
    THEN RStrip(SubSeq(s, 1, Len(s) - 1)) ELSE s

\* str.strip()
Strip(s) == RStrip(LStrip(s))

\* len(s.split()): the number of maximal runs of non-whitespace characters
WordCount(s) ==
    Cardinality({i \in 1..Len(s) :
        /\ s[i] \notin Whitespace
        /\ (i = 1 \/ s[i - 1] \in Whitespace)})

\* sep.join(parts)
RECURSIVE Join(_, _)
Join(parts, sep) ==
    IF parts = <<>> THEN <<>>
    ELSE IF Len(parts) = 1 THEN parts[1]
    ELSE parts[1] \o sep \o Join(Tail(parts), sep)

\* sum(len(s.split()) for s in current_chunk)
RECURSIVE SumWords(_)
SumWords(ss) == IF ss = <<>> THEN 0 ELSE WordCount(Head(ss)) + SumWords(Tail(ss))

----------------------------------------------------------------------------
(* IndonesianTextSplitter.split_sentences *)

\* length of the match of  [.!?।]+|\n\n  at the start of s, 0 when none
RECURSIVE TerminatorRun(_)
TerminatorRun(s) ==
    IF s # <<>> /\ Head(s) \in Terminators THEN 1 + TerminatorRun(Tail(s)) ELSE 0

SeparatorLen(s) ==
    IF TerminatorRun(s) > 0 THEN TerminatorRun(s)
    ELSE IF Len(s) >= 2 /\ s[1] = "\n" /\ s[2] = "\n" THEN 2
    ELSE 0

\* re.split(sentence_endings, text): the pieces between the matches
RECURSIVE ReSplit(_, _)
ReSplit(s, piece) ==
    IF s = <<>> THEN <<piece>>
    ELSE IF SeparatorLen(s) > 0
         THEN <<piece>> \o ReSplit(Drop(s, SeparatorLen(s)), <<>>)
         ELSE ReSplit(Tail(s), Append(piece, Head(s)))

\* [s.strip() for s in sentences if s.strip()]
RECURSIVE StripNonEmpty(_)
StripNonEmpty(pieces) ==
    IF pieces = <<>> THEN <<>>
    ELSE IF Strip(Head(pieces)) = <<>> THEN StripNonEmpty(Tail(pieces))
    ELSE <<Strip(Head(pieces))>> \o StripNonEmpty(Tail(pieces))

split_sentences(text) == StripNonEmpty(ReSplit(text, <<>>))

----------------------------------------------------------------------------
(* IndonesianTextSplitter.create_chunks *)

\* overlap_start = max(0, len(current_chunk) - chunk_overlap)
OverlapStart(current_chunk, overlap) == Max(0, Len(current_chunk) - overlap)

\* a carry-over that keeps the leading instead of the trailing sentences
CarryOverLeading(current_chunk, overlap) ==
    SubSeq(current_chunk, 1, Min(overlap, Len(current_chunk)))

\* current_chunk[overlap_start:]
CarryOver(current_chunk, overlap) ==
    Drop(current_chunk, OverlapStart(current_chunk, overlap))

\* an emission as soon as the sentence fills the chunk to its size
OverflowsAtLimit(current_length, sentence_length, current_chunk, size) ==
    current_length + sentence_length >= size /\ current_chunk # <<>>

\* the condition under which the buffer is emitted before a sentence is appended
Overflows(current_length, sentence_length, current_chunk, size) ==
    current_length + sentence_length > size /\ current_chunk # <<>>

\* a sentence put in front of the buffer
PrependSentence(current_chunk, sentence) == <<sentence>> \o current_chunk

\* current_chunk.append(sentence)
AppendSentence(current_chunk, sentence) == Append(current_chunk, sentence)

\* The for loop and the final emission.  The result is the sequence of the
\* values current_chunk had when it was joined and appended to chunks.
RECURSIVE ChunkLoop(_, _, _, _, _, _)
ChunkLoop(rest, bufs, current_chunk, current_length, size, overlap) ==
    IF rest = <<>>
    THEN IF current_chunk # <<>> THEN Append(bufs, current_chunk) ELSE bufs
    ELSE LET sentence == Head(rest)
             sentence_length == WordCount(sentence)
         IN  IF Overflows(current_length, sentence_length, current_chunk, size)
             THEN LET kept == CarryOver(current_chunk, overlap)
                  IN  ChunkLoop(Tail(rest), Append(bufs, current_chunk),
                                AppendSentence(kept, sentence),
                                SumWords(kept) + sentence_length, size, overlap)
             ELSE ChunkLoop(Tail(rest), bufs,
                            AppendSentence(current_chunk, sentence),
                            current_length + sentence_length, size, overlap)

ChunkBuffers(ss, size, overlap) == ChunkLoop(ss, <<>>, <<>>, 0, size, overlap)

\* " ".join(current_chunk)
JoinChunk(current_chunk) == Join(current_chunk, <<" ">>)

create_chunks(ss, size, overlap) ==
    LET bufs == ChunkBuffers(ss, size, overlap)
    IN  [i \in 1..Len(bufs) |-> JoinChunk(bufs[i])]

----------------------------------------------------------------------------
(* IndonesianTextSplitter.split_documents *)

\* A document is [source, content, is_text]; is_text = FALSE stands for a
\* content that is not a string, on which re.split raises.

\* chunk_id of the chunk at position i (from 0) of enumerate(chunks)
ChunkId(i) == i

\* a total taken over the chunks of all documents so far
TotalChunksGlobal(doc_chunks, result_so_far) == Len(result_so_far) + Len(doc_chunks)

\* total_chunks recorded on every chunk of a document
TotalChunks(doc_chunks, result_so_far) == Len(doc_chunks)

\* the chunk_doc records one iteration of the loop appends
ChunkDocs(doc, size, overlap, result_so_far) ==
    IF ~doc.is_text THEN <<>>
    ELSE LET doc_chunks == create_chunks(split_sentences(doc.content), size, overlap)
         IN  [i \in 1..Len(doc_chunks) |->
                 [content |-> doc_chunks[i],
                  source |-> doc.source,
                  chunk_id |-> ChunkId(i - 1),
                  total_chunks |-> TotalChunks(doc_chunks, result_so_far),
                  language |-> "indonesian",
                  original_doc_size |-> Len(doc.content)]]

\* a loop that a failing document ends
ContinuesAfterSuccess(doc) == doc.is_text

\* whether the for loop goes on to the next document after doc: the try and
\* its except are inside the for, so it does after every document
ContinuesAfter(doc) == TRUE

\* the number of documents the loop visits
LastVisited(docs) ==
    LET ends == {i \in 1..Len(docs) : ~ContinuesAfter(docs[i])}
    IN  IF ends = {} THEN Len(docs)
        ELSE CHOOSE i \in ends : \A j \in ends : i <= j

\* What iterations lo..hi of the for loop append to all_chunks, result being
\* all_chunks before iteration lo.  The iterations are taken by halves, which
\* keeps the evaluation shallow on a long list of documents.
RECURSIVE SplitLoop(_, _, _, _, _, _)
SplitLoop(docs, lo, hi, result, size, overlap) ==
    IF lo > hi THEN <<>>
    ELSE IF lo = hi THEN ChunkDocs(docs[lo], size, overlap, result)
    ELSE LET mid == (lo + hi) \div 2
             first == SplitLoop(docs, lo, mid, result, size, overlap)
         IN  first \o SplitLoop(docs, mid + 1, hi, result \o first, size, overlap)

split_documents(docs, size, overlap) ==
    LET visited == SubSeq(docs, 1, LastVisited(docs))
    IN  SplitLoop(visited, 1, Len(visited), <<>>, size, overlap)

----------------------------------------------------------------------------
(* Inputs *)

Strs(n) == UNION {[1..k -> Alphabet] : k \in 0..n}

\* the files of the data directory, in the order the loader found them
Files == <<"f1.txt", "f2.txt">>

TextDoc(f, c) == [source |-> f, content |-> c, is_text |-> TRUE]
BadDoc(f) == [source |-> f, content |-> <<>>, is_text |-> FALSE]

DocsOf(f, n) == {TextDoc(f, c) : c \in Strs(n)} \cup {BadDoc(f)}

DocLists ==
    {<<>>}
    \cup {<<d>> : d \in DocsOf(Files[1], MaxTotalLen)}
    \cup UNION {{<<d1, d2>> : d2 \in DocsOf(Files[2], MaxTotalLen - Len(d1.content))}
                : d1 \in DocsOf(Files[1], MaxTotalLen)}

\* sentences handed to create_chunks directly
SentenceSet == {<<"a">>, <<"b">>, <<"a", " ", "b">>, <<"b", " ", "a", " ", "a">>}

SentenceLists == UNION {[1..k -> SentenceSet] : k \in 0..MaxSentences}

----------------------------------------------------------------------------
(* The chunker run *)

\* the pipeline objects are constructed and not used
IndexUnused ==
    /\ collection = "handle"
    /\ stored_collections = 1
    /\ records = <<>>
    /\ records_before = <<>>
    /\ next_id = 0
    /\ clock = 0
    /\ model_type = "qa"
    /\ config_model_type = "qa"
    /\ load_failed = FALSE
    /\ last = [op |-> "none"]

InitSplit ==
    /\ chunk_size \in 1..MaxChunkSize
    /\ chunk_overlap \in 0..MaxOverlap
    /\ phase = "split_ready"
    /\ documents \in DocLists
    /\ all_chunks = <<>>
    /\ sentences = <<>>
    /\ chunks = <<>>
    /\ buffers = <<>>
    /\ IndexUnused

InitChunks ==
    /\ chunk_size \in 1..MaxChunkSize
    /\ chunk_overlap \in 0..MaxOverlap
    /\ phase = "chunks_ready"
    /\ documents = <<>>
    /\ all_chunks = <<>>
    /\ sentences \in SentenceLists
    /\ chunks = <<>>
    /\ buffers = <<>>
    /\ IndexUnused

SplitDocuments ==
    /\ phase = "split_ready"
    /\ all_chunks' = split_documents(documents, chunk_size, chunk_overlap)
    /\ phase' = "split_done"
    /\ UNCHANGED <<chunk_size, chunk_overlap, documents, sentences, chunks, buffers>>
    /\ UNCHANGED indexVars

CreateChunks ==
    /\ phase = "chunks_ready"
    /\ chunks' = create_chunks(sentences, chunk_size, chunk_overlap)
    /\ buffers' = ChunkBuffers(sentences, chunk_size, chunk_overlap)
    /\ phase' = "chunks_done"
    /\ UNCHANGED <<chunk_size, chunk_overlap, documents, all_chunks, sentences>>
    /\ UNCHANGED indexVars

InitChunker == InitSplit \/ InitChunks

NextChunker == SplitDocuments \/ CreateChunks

SpecChunker == InitChunker /\ [][NextChunker]_vars

----------------------------------------------------------------------------
(* Properties of the chunker *)

\* the chunks of the result that carry the source f, in emission order
ChunksOf(f) == SelectSeq(all_chunks, LAMBDA c : c.source = f)

YieldsSentence(doc) == doc.is_text /\ split_sentences(doc.content) # <<>>

\* C1: after split_documents, every document that yields at least one sentence
\* has at least one chunk, each of its chunks records total_chunks equal to the
\* number of chunks of that document, and their chunk_id values in emission
\* order are 0, 1, ..., total_chunks - 1.
C1_ChunkIndexContiguous ==
    phase = "split_done" =>
        \A d \in 1..Len(documents) :
            YieldsSentence(documents[d]) =>
                LET cs == ChunksOf(documents[d].source)
                IN  /\ Len(cs) >= 1
                    /\ \A j \in 1..Len(cs) :
                          /\ cs[j].total_chunks = Len(cs)
                          /\ cs[j].chunk_id = j - 1

C1_Witness ==
    /\ phase = "split_done"
    /\ Len(documents) = 2
    /\ Len(ChunksOf(Files[1])) >= 2
    /\ Len(ChunksOf(Files[2])) >= 2
    /\ all_chunks[Len(all_chunks)].chunk_id = 1

\* C2: when create_chunks emits more than one chunk with chunk_overlap > 0, the
\* last m sentences of chunk i are the first m sentences of chunk i+1, where
\* m = min(chunk_overlap, number of sentences of chunk i); the emitted strings
\* are the space-joined buffers.
C2_OverlapCarried ==
    (phase = "chunks_done" /\ chunk_overlap > 0 /\ Len(chunks) > 1) =>
        /\ Len(buffers) = Len(chunks)
        /\ \A i \in 1..Len(chunks) : chunks[i] = JoinChunk(buffers[i])
        /\ \A i \in 1..(Len(buffers) - 1) :
              LET m == Min(chunk_overlap, Len(buffers[i]))
              IN  /\ Len(buffers[i + 1]) >= m
                  /\ SubSeq(buffers[i], Len(buffers[i]) - m + 1, Len(buffers[i]))
                       = SubSeq(buffers[i + 1], 1, m)

C2_Witness ==
    /\ phase = "chunks_done"
    /\ chunk_overlap > 0
    /\ Len(chunks) >= 3
    /\ \E i \in 1..(Len(buffers) - 1) : Len(buffers[i]) < chunk_overlap
    /\ \E i \in 1..(Len(buffers) - 1) :
          /\ Len(buffers[i]) > chunk_overlap
          /\ buffers[i][Len(buffers[i])] # buffers[i][1]

----------------------------------------------------------------------------
(* The embedder: IndonesianEmbeddingModel.encode *)

\* batch_size of encode
EncodeBatchSize == 32

\* texts[i:j] of Python, i and j counted from 0
PySlice(s, i, j) == SubSeq(s, i + 1, Min(j, Len(s)))

\* the vector the sentence-transformer returns for one text
Embed(text) == [of |-> text]

\* The batch loop of encode.  failed is the set of batch numbers (i // batch_size)
\* on which the model raises; such a batch adds nothing to all_embeddings.
RECURSIVE EncodeLoop(_, _, _)
EncodeLoop(texts, i, failed) ==
    IF i >= Len(texts) THEN <<>>
    ELSE LET batch == PySlice(texts, i, i + EncodeBatchSize)
             batch_embeddings ==
                 IF (i \div EncodeBatchSize) \in failed THEN <<>>
                 ELSE [j \in 1..Len(batch) |-> Embed(batch[j])]
         IN  batch_embeddings \o EncodeLoop(texts, i + EncodeBatchSize, failed)

encode(texts, failed) == EncodeLoop(texts, 0, failed)

----------------------------------------------------------------------------
(* The store behind VectorStore: the chromadb collection *)

\* the store's distance between a query embedding and a stored embedding
Distance(q, e) == IF q = e THEN 0 ELSE 1

\* the records nearest first, ties in insertion order
Nearest(recs, q) ==
    SelectSeq(recs, LAMBDA r : Distance(q, r.embedding) = 0)
        \o SelectSeq(recs, LAMBDA r : Distance(q, r.embedding) # 0)

\* collection.query raises for n_results <= 0
QueryRejected(n_results) == n_results <= 0

\* collection.query(query_embeddings=[q], n_results=n): the documents[0] list
StoreQuery(recs, q, n_results) == SubSeq(Nearest(recs, q), 1, Min(n_results, Len(recs)))

IdsOf(recs) == {recs[i].id : i \in 1..Len(recs)}

\* collection.add rejects a batch whose lists differ in length or whose ids repeat
BatchRejected(batch_ids, batch_embeddings, batch_documents, batch_metadatas) ==
    \/ Len(batch_embeddings) # Len(batch_ids)
    \/ Len(batch_documents) # Len(batch_ids)
    \/ Len(batch_metadatas) # Len(batch_ids)
    \/ \E i, j \in 1..Len(batch_ids) : i # j /\ batch_ids[i] = batch_ids[j]

\* collection.add of an accepted batch; a record whose id is stored already is skipped
StoreAdd(recs, batch_ids, batch_embeddings, batch_documents, batch_metadatas) ==
    LET new == [i \in 1..Len(batch_ids) |->
                   [id |-> batch_ids[i],
                    content |-> batch_documents[i],
                    embedding |-> batch_embeddings[i],
                    metadata |-> batch_metadatas[i]]]
    IN  recs \o SelectSeq(new, LAMBDA r : r.id \notin IdsOf(recs))

----------------------------------------------------------------------------
(* VectorStore *)

\* batch_size of add_documents
BatchSize == 100

NoFaults == [primary |-> FALSE, fallback |-> FALSE]

\* the ways the two attempts of _ensure_collection_initialized can fail when it runs
EnsureFaults(coll) ==
    IF coll = "unset" THEN [primary : BOOLEAN, fallback : BOOLEAN] ELSE {NoFaults}

\* every way the two attempts can fail
AllFaults == [primary : BOOLEAN, fallback : BOOLEAN]

\* client.create_collection(name): the store keeps names unique
StoreCreate(stored) ==
    IF stored >= 1 THEN [stored |-> stored, raised |-> TRUE, error |-> "duplicate"]
    ELSE [stored |-> stored + 1, raised |-> FALSE, error |-> "none"]

\* a fallback that creates without looking at the list of collections
NameListedNever(stored) == FALSE

\* "indonesian_documents" in collection_names
NameListed(stored) == stored >= 1

\* _create_collection_fallback: the handle, the collections of that name in the
\* store, and the exception that leaves the method, if any
create_collection_fallback(coll, stored, fails) ==
    IF fails
    THEN [collection |-> coll, stored |-> stored, raised |-> TRUE, error |-> "store"]
    ELSE IF NameListed(stored)
    THEN [collection |-> "handle", stored |-> stored, raised |-> FALSE, error |-> "none"]
    ELSE LET made == StoreCreate(stored)
         IN  [collection |-> IF made.raised THEN coll ELSE "handle",
              stored |-> made.stored, raised |-> made.raised, error |-> made.error]

\* _ensure_collection_initialized: get_or_create_collection, and the fallback
\* when that raises
ensure_collection_initialized(coll, stored, faults) ==
    IF ~faults.primary
    THEN [collection |-> "handle", stored |-> Max(stored, 1), raised |-> FALSE,
          error |-> "none"]
    ELSE create_collection_fallback(coll, stored, faults.fallback)

\* what _ensure_collection_initialized does to the handle of a constructed
\* store, whose collection exists
EnsureCollection(coll, faults) ==
    LET r == ensure_collection_initialized(coll, 1, faults)
    IN  [collection |-> r.collection, raised |-> r.raised]

\* if not hasattr(self, 'collection') or self.collection is None: ensure
LazyEnsure(coll, faults) ==
    IF coll = "unset" THEN EnsureCollection(coll, faults)
    ELSE [collection |-> coll, raised |-> FALSE]

\* dict.get(key, default)
Get(doc, key, default) == IF key \in DOMAIN doc THEN doc[key] ELSE default

\* the except clause of search
SearchOnError(coll) == [result |-> <<>>, collection |-> coll, raised |-> FALSE]

\* a search that asks the store for every record, whatever n_results is
SearchLimitAll(n_results, recs) == Max(n_results, Len(recs))

\* n_results as search hands it to collection.query
SearchLimit(n_results, recs) == n_results

\* formatted_results of search
FormatResults(found, q) ==
    [i \in 1..Len(found) |->
        [content |-> found[i].content,
         metadata |-> found[i].metadata,
         distance |-> Distance(q, found[i].embedding)]]

\* VectorStore.search
search(coll, recs, query_embedding, n_results, faults, query_fails) ==
    LET ready == LazyEnsure(coll, faults)
    IN  IF ready.raised THEN SearchOnError(coll)
        ELSE IF query_fails \/ QueryRejected(SearchLimit(n_results, recs))
        THEN SearchOnError(ready.collection)
        ELSE [result |-> FormatResults(
                             StoreQuery(recs, query_embedding, SearchLimit(n_results, recs)),
                             query_embedding),
              collection |-> ready.collection,
              raised |-> FALSE]

\* VectorStore.get_collection_count
get_collection_count(coll, recs, faults, count_fails) ==
    LET ready == LazyEnsure(coll, faults)
    IN  IF ready.raised THEN [result |-> 0, collection |-> coll, raised |-> FALSE]
        ELSE IF count_fails THEN [result |-> 0, collection |-> ready.collection, raised |-> FALSE]
        ELSE [result |-> Len(recs), collection |-> ready.collection, raised |-> FALSE]

\* ids derived from the content, so that equal chunks share an id
NewIdsByContent(docs, drawn) ==
    [i \in 1..Len(docs) |->
        drawn + CHOOSE j \in 1..i :
                    /\ docs[j].content = docs[i].content
                    /\ \A k \in 1..(j - 1) : docs[k].content # docs[i].content]

\* ids = [str(uuid.uuid4()) for _ in range(len(documents))]: values never drawn before
NewIds(docs, drawn) == [i \in 1..Len(docs) |-> drawn + i]

\* metadatas of add_documents
Metadatas(docs, now) ==
    [i \in 1..Len(docs) |->
        [source |-> Get(docs[i], "source", "unknown"),
         chunk_id |-> Get(docs[i], "chunk_id", 0),
         language |-> Get(docs[i], "language", "indonesian"),
         timestamp |-> now]]

\* end_idx = min(i + batch_size, len(documents))
BatchEnd(i, n) == Min(i + BatchSize, n)

\* a batch loop that gives up at the first rejected batch
StopAfterError == FALSE

\* whether the batch loop goes on to the next batch after a rejected one
ContinueAfterError == TRUE

\* The batch loop of add_documents.  rejected is the set of batch numbers
\* (i // batch_size) on which the store raises of its own.  The result holds the
\* records and, per batch submitted, its slice and whether the store took it.
RECURSIVE AddLoop(_, _, _, _, _, _, _, _)
AddLoop(i, recs, submitted, ids, embeddings, contents, metadatas, rejected) ==
    IF i >= Len(ids) THEN [records |-> recs, submitted |-> submitted]
    ELSE LET end_idx == BatchEnd(i, Len(ids))
             batch_ids == PySlice(ids, i, end_idx)
             batch_embeddings == PySlice(embeddings, i, end_idx)
             batch_documents == PySlice(contents, i, end_idx)
             batch_metadatas == PySlice(metadatas, i, end_idx)
             fails == \/ (i \div BatchSize) \in rejected
                      \/ BatchRejected(batch_ids, batch_embeddings,
                                       batch_documents, batch_metadatas)
             sub == Append(submitted, [from |-> i, to |-> end_idx, accepted |-> ~fails])
         IN  IF fails
             THEN IF ContinueAfterError
                  THEN AddLoop(i + BatchSize, recs, sub, ids, embeddings, contents,
                               metadatas, rejected)
                  ELSE [records |-> recs, submitted |-> sub]
             ELSE AddLoop(i + BatchSize,
                          StoreAdd(recs, batch_ids, batch_embeddings,
                                   batch_documents, batch_metadatas),
                          sub, ids, embeddings, contents, metadatas, rejected)

\* VectorStore.add_documents
add_documents(coll, recs, docs, embeddings, drawn, now, faults, rejected) ==
    LET ready == LazyEnsure(coll, faults)
    IN  IF ready.raised
        THEN [records |-> recs, collection |-> coll, next_id |-> drawn,
              submitted |-> <<>>, raised |-> TRUE]
        ELSE LET ids == NewIds(docs, drawn)
                 contents == [i \in 1..Len(docs) |-> docs[i].content]
                 done == AddLoop(0, recs, <<>>, ids, embeddings, contents,
                                 Metadatas(docs, now), rejected)
             IN  [records |-> done.records, collection |-> ready.collection,
                  next_id |-> drawn + Len(docs),
                  submitted |-> done.submitted, raised |-> FALSE]

----------------------------------------------------------------------------
(* Retriever *)

\* a retrieve that leaves n_results of search at its default
RetrieveLimitDefault(n_results) == 5

\* n_results as retrieve hands it to VectorStore.search
RetrieveLimit(n_results) == n_results

\* the value retrieve returns from what search returned
RetrieveResult(found) == found

\* Retriever.retrieve.  calls lists the collaborator calls it made.
retrieve(coll, recs, query, n_results, faults, encode_fails, query_fails) ==
    LET ready == IF coll = "unset" THEN EnsureCollection(coll, faults)
                 ELSE [collection |-> coll, raised |-> FALSE]
        embeddings == encode(<<query>>, IF encode_fails THEN {0} ELSE {})
        encode_call == [fn |-> "encode", texts |-> <<query>>]
    IN  IF ready.raised
        THEN [result |-> <<>>, collection |-> coll, raised |-> FALSE, calls |-> <<>>]
        ELSE IF embeddings = <<>>
        THEN [result |-> <<>>, collection |-> ready.collection, raised |-> FALSE,
              calls |-> <<encode_call>>]
        ELSE LET found == search(ready.collection, recs, embeddings[1],
                                 RetrieveLimit(n_results), faults, query_fails)
             IN  [result |-> RetrieveResult(found.result),
                  collection |-> found.collection,
                  raised |-> FALSE,
                  calls |-> <<encode_call,
                              [fn |-> "search", embedding |-> embeddings[1],
                               n_results |-> RetrieveLimit(n_results),
                               returned |-> found.result]>>]

----------------------------------------------------------------------------
(* Inputs of the index operations *)

MaxK == 2        \* n_results ranges over 0..MaxK
MaxAdds == 2     \* add_documents calls in one run
MaxExtra == 3    \* records beyond two full batches and one more

MaxRecords == 2 * BatchSize + 1 + MaxExtra

TextA == <<"a">>
TextB == <<"b">>
TextBlank == <<" ">>

Questions == {TextA, <<"q">>}

\* a chunk as split_documents produces it
Chunk(content, i, n) ==
    [content |-> content, source |-> Files[1], chunk_id |-> i, total_chunks |-> n,
     language |-> "indonesian", original_doc_size |-> Len(content)]

SmallAdds ==
    {<<>>,
     <<Chunk(TextA, 0, 1)>>,
     <<Chunk(TextA, 0, 1), Chunk(TextA, 0, 1)>>,
     <<Chunk(TextB, 0, 3), Chunk(TextA, 1, 3), Chunk(TextBlank, 2, 3)>>}

BulkAdd(n) == [i \in 1..n |-> Chunk(IF i % 2 = 1 THEN TextA ELSE TextB, i - 1, n)]

AddInputs == SmallAdds \cup {BulkAdd(BatchSize), BulkAdd(2 * BatchSize + 1)}

\* the batch numbers of an add of n documents
BatchNumbers(n) == {b \in 0..(n \div BatchSize) : b * BatchSize < n}

ContentsOf(docs) == [i \in 1..Len(docs) |-> docs[i].content]

----------------------------------------------------------------------------
(* The index operations as steps *)

\* chunk_size and chunk_overlap of DataConfig
DefaultChunkSize == 500
DefaultChunkOverlap == 50

\* the splitter of the pipeline, not running
ChunkerIdle ==
    /\ chunk_size = DefaultChunkSize
    /\ chunk_overlap = DefaultChunkOverlap
    /\ phase = "idle"
    /\ documents = <<>>
    /\ all_chunks = <<>>
    /\ sentences = <<>>
    /\ chunks = <<>>
    /\ buffers = <<>>

\* no result is waiting to be read by the caller
Idle == last.op = "none"

\* the caller has read the result of the last operation
Continue ==
    /\ ~Idle
    /\ last' = [op |-> "none"]
    /\ records_before' = records
    /\ UNCHANGED <<chunkerVars, collection, records, next_id, clock, model_type,
                   config_model_type, load_failed,
                   stored_collections>>

\* a record left in the persist directory by an earlier run
OldRecord ==
    [content |-> TextB, embedding |-> Embed(TextB), id |-> 0,
     metadata |-> [source |-> Files[2], chunk_id |-> 0, language |-> "indonesian",
                   timestamp |-> 0]]

\* VectorStore.__init__ on a persist directory that has the collection, with or
\* without records, or has not; a constructor that raises leaves no store
InitIndex ==
    /\ ChunkerIdle
    /\ \E existed \in BOOLEAN, faults \in AllFaults :
          LET made == ensure_collection_initialized("unset", IF existed THEN 1 ELSE 0,
                                                    faults)
          IN  /\ ~made.raised
              /\ collection = made.collection
              /\ stored_collections = made.stored
              /\ records \in (IF existed THEN {<<>>, <<OldRecord>>} ELSE {<<>>})
    /\ records_before = records
    /\ next_id = 0
    /\ clock = 0
    /\ model_type = "qa"
    /\ config_model_type = "qa"
    /\ load_failed = FALSE
    /\ last = [op |-> "none"]

\* _ensure_collection_initialized called on the constructed store
EnsureInitialized ==
    /\ Idle
    /\ \E faults \in AllFaults :
         LET r == ensure_collection_initialized(collection, stored_collections, faults)
         IN  /\ collection' = r.collection
             /\ stored_collections' = r.stored
             /\ last' = [op |-> "ensure", faults |-> faults, raised |-> r.raised,
                         error |-> r.error]
    /\ records_before' = records
    /\ UNCHANGED <<chunkerVars, records, next_id, clock, model_type, config_model_type,
                   load_failed>>

AddDocuments ==
    /\ Idle
    /\ clock < MaxAdds
    /\ \E docs \in AddInputs, faults \in EnsureFaults(collection) :
         \E rejected \in SUBSET BatchNumbers(Len(docs)) :
           /\ Len(records) + Len(docs) <= MaxRecords
           /\ LET r == add_documents(collection, records, docs,
                                     encode(ContentsOf(docs), {}), next_id, clock,
                                     faults, rejected)
              IN  /\ records' = r.records
                  /\ collection' = r.collection
                  /\ next_id' = r.next_id
                  /\ last' = [op |-> "add", docs |-> docs, rejected |-> rejected,
                              submitted |-> r.submitted, raised |-> r.raised]
    /\ clock' = clock + 1
    /\ records_before' = records
    /\ UNCHANGED <<chunkerVars, model_type, config_model_type, load_failed,
                   stored_collections>>

Search ==
    /\ Idle
    /\ \E q \in Questions, k \in 0..MaxK, faults \in EnsureFaults(collection),
          query_fails \in BOOLEAN :
         LET r == search(collection, records, Embed(q), k, faults, query_fails)
         IN  /\ collection' = r.collection
             /\ last' = [op |-> "search", embedding |-> Embed(q), k |-> k,
                         ready |-> (collection = "handle"),
                         query_fails |-> query_fails,
                         result |-> r.result, raised |-> r.raised]
    /\ records_before' = records
    /\ UNCHANGED <<chunkerVars, records, next_id, clock, model_type, config_model_type, load_failed,
                   stored_collections>>

Count ==
    /\ Idle
    /\ \E faults \in EnsureFaults(collection), count_fails \in BOOLEAN :
         LET r == get_collection_count(collection, records, faults, count_fails)
         IN  /\ collection' = r.collection
             /\ last' = [op |-> "count", count_fails |-> count_fails,
                         result |-> r.result, raised |-> r.raised]
    /\ records_before' = records
    /\ UNCHANGED <<chunkerVars, records, next_id, clock, model_type, config_model_type, load_failed,
                   stored_collections>>

Retrieve ==
    /\ Idle
    /\ \E q \in Questions, k \in 0..MaxK, faults \in EnsureFaults(collection),
          encode_fails \in BOOLEAN, query_fails \in BOOLEAN :
         LET r == retrieve(collection, records, q, k, faults, encode_fails, query_fails)
         IN  /\ collection' = r.collection
             /\ last' = [op |-> "retrieve", query |-> q, k |-> k,
                         encode_fails |-> encode_fails, query_fails |-> query_fails,
                         calls |-> r.calls, result |-> r.result, raised |-> r.raised]
    /\ records_before' = records
    /\ UNCHANGED <<chunkerVars, records, next_id, clock, model_type, config_model_type, load_failed,
                   stored_collections>>

NextIndex == AddDocuments \/ Search \/ Count \/ Retrieve \/ EnsureInitialized \/ Continue

SpecIndex == InitIndex /\ [][NextIndex]_vars

----------------------------------------------------------------------------
(* Properties of the vector store and the retriever *)

Added == Drop(records, Len(records_before))

\* C3: search never raises and returns at most k results; it returns the empty
\* list when the collection holds no records, when the collection could not be
\* made ready, or when the store query fails.
C3_SearchBounded ==
    last.op = "search" =>
        /\ ~last.raised
        /\ Len(last.result) <= last.k
        /\ (records = <<>> \/ ~last.ready \/ last.query_fails) => last.result = <<>>

C3_Witness ==
    /\ last.op = "search"
    /\ last.k = MaxK
    /\ Len(records) > last.k
    /\ Len(last.result) = last.k
    /\ last.result[1].distance = 0
    /\ last.result[2].distance # 0

\* C4: add_documents never deduplicates.  Stored ids are pairwise distinct, no
\* operation removes or changes a stored record, an add of n chunks whose batches
\* all succeed raises the count by n, adding the same chunk twice gives two records
\* with distinct ids, and count() reports the number of stored records.
C4_NoDeduplication ==
    /\ Cardinality(IdsOf(records)) = Len(records)
    /\ Len(records) >= Len(records_before)
    /\ SubSeq(records, 1, Len(records_before)) = records_before
    /\ (last.op = "add" /\ ~last.raised /\ last.rejected = {}) =>
          /\ Len(records) = Len(records_before) + Len(last.docs)
          /\ \A i \in 1..Len(last.docs) : Added[i].content = last.docs[i].content
          /\ (Len(last.docs) = 2 /\ last.docs[1] = last.docs[2]) =>
                /\ Added[1].id # Added[2].id
                /\ Added[1].content = Added[2].content
    /\ (last.op = "count" /\ ~last.count_fails) => last.result = Len(records)

C4_Witness ==
    /\ last.op = "add"
    /\ last.rejected = {}
    /\ Len(last.docs) = 2
    /\ last.docs[1] = last.docs[2]
    /\ Len(records) = Len(records_before) + 2
    /\ \E i \in 1..Len(records_before) :
          records_before[i].content = last.docs[1].content

\* C8: retrieve never raises; when encoding or the store query fails it returns the
\* empty list; otherwise it encodes the question as a one-item batch, calls search
\* with that embedding and k, and returns what search returned, in the same order.
C8_RetrieveDelegates ==
    last.op = "retrieve" =>
        /\ ~last.raised
        /\ (last.encode_fails \/ last.query_fails) => last.result = <<>>
        /\ (~last.encode_fails /\ ~last.query_fails) =>
              /\ Len(last.calls) = 2
              /\ last.calls[1] = [fn |-> "encode", texts |-> <<last.query>>]
              /\ last.calls[2].fn = "search"
              /\ last.calls[2].embedding = Embed(last.query)
              /\ last.calls[2].n_results = last.k
              /\ last.result = last.calls[2].returned
              /\ last.result = search(collection, records, Embed(last.query), last.k,
                                      NoFaults, FALSE).result

C8_Witness ==
    /\ last.op = "retrieve"
    /\ ~last.encode_fails
    /\ ~last.query_fails
    /\ last.k = 2
    /\ Len(last.result) = 2
    /\ last.result[1].content # last.result[2].content
    /\ records[1].content # last.result[1].content

\* the contents of the documents of the batches the store took, in input order
RECURSIVE AcceptedContents(_, _)
AcceptedContents(docs, submitted) ==
    IF submitted = <<>> THEN <<>>
    ELSE (IF Head(submitted).accepted
          THEN ContentsOf(PySlice(docs, Head(submitted).from, Head(submitted).to))
          ELSE <<>>)
         \o AcceptedContents(docs, Tail(submitted))

\* C9: add_documents submits consecutive batches of at most BatchSize documents in
\* input order; a rejected batch does not stop the later ones; exactly the records
\* of the batches that succeeded are appended, in order.
C9_BatchesIndependent ==
    (last.op = "add" /\ ~last.raised) =>
        LET n == Len(last.docs)
            sub == last.submitted
        IN  /\ Len(sub) = (n + BatchSize - 1) \div BatchSize
            /\ \A b \in 1..Len(sub) :
                  /\ sub[b].from = (b - 1) * BatchSize
                  /\ sub[b].to = Min(b * BatchSize, n)
                  /\ sub[b].to - sub[b].from <= BatchSize
                  /\ sub[b].accepted <=> (b - 1) \notin last.rejected
            /\ SubSeq(records, 1, Len(records_before)) = records_before
            /\ [i \in 1..Len(Added) |-> Added[i].content] = AcceptedContents(last.docs, sub)

C9_Witness ==
    /\ last.op = "add"
    /\ Len(last.submitted) = 3
    /\ last.rejected = {1}
    /\ Len(records) = Len(records_before) + BatchSize + 1
    /\ records_before # <<>>

\* the faults under which one of the two attempts of the initialisation succeeds
Recoverable == {f \in AllFaults : ~(f.primary /\ f.fallback)}

\* C13: initialisation is idempotent.  However often _ensure_collection_initialized
\* runs between adds, searches and counts, and whether or not the store had the
\* collection before the store object was made, there is exactly one collection
\* of the name, its records are as they were, and no duplicate-creation error
\* leaves the method (it raises only when the store fails both attempts).  The
\* handle is set from construction on; the bodies of search, count and add, run
\* with the handle unset, initialise it and then do what they do with it set.
C13_EnsureIdempotent ==
    /\ stored_collections = 1
    /\ collection = "handle"
    /\ last.op = "ensure" =>
          /\ records = records_before
          /\ last.error # "duplicate"
          /\ last.raised <=> (last.faults.primary /\ last.faults.fallback)
    /\ \A f \in Recoverable :
          /\ search("unset", records, Embed(TextA), MaxK, f, FALSE)
                = search("handle", records, Embed(TextA), MaxK, NoFaults, FALSE)
          /\ get_collection_count("unset", records, f, FALSE)
                = get_collection_count("handle", records, NoFaults, FALSE)
          /\ add_documents("unset", records, <<Chunk(TextA, 0, 1)>>,
                           encode(<<TextA>>, {}), next_id, clock, f, {})
                = add_documents("handle", records, <<Chunk(TextA, 0, 1)>>,
                                encode(<<TextA>>, {}), next_id, clock, NoFaults, {})

C13_Witness ==
    /\ last.op = "ensure"
    /\ last.faults.primary
    /\ ~last.faults.fallback
    /\ ~last.raised
    /\ Len(records) > 1
    /\ records[1] = OldRecord
    /\ records = records_before

----------------------------------------------------------------------------
(* IndonesianGenerator: the answer selector *)

\* Answers are either one of the fixed messages of the code or a text.
Fixed(msg) == [fixed |-> msg]
Text(chars) == [text |-> chars]

NoInfoMsg == "Maaf, tidak dapat menemukan informasi yang relevan untuk pertanyaan Anda."
GenerationErrorMsg == "Maaf, terjadi kesalahan dalam menghasilkan jawaban."
ProcessingErrorMsg == "Maaf, terjadi kesalahan dalam memproses pertanyaan Anda."
NotFoundMsg == "Jawaban tidak ditemukan."
NoSpecificAnswerMsg == "Tidak dapat menemukan jawaban yang spesifik."

\* Probabilities are counted in steps of 1 / ScoreScale and confidences in steps
\* of 1 / (10 * ScoreScale), so that halving and the factor 0.8 are exact.
ScoreScale == 2
ConfidenceOne == 10 * ScoreScale

\* a constructor that keeps the configured type when the load fails
LoadedModelTypeKept(configured, load_fails) == configured

\* __init__: a failed model load falls back to the QA model
LoadedModelType(configured, load_fails) == IF load_fails THEN "qa" ELSE configured

\* str.lower on the letters of the model
Lower(c) == CASE c = "A" -> "a" [] c = "J" -> "j" [] c = "K" -> "k" [] OTHER -> c
LowerStr(s) == [i \in 1..Len(s) |-> Lower(s[i])]

\* whether s starts with prefix
StartsWith(s, prefix) ==
    Len(s) >= Len(prefix) /\ SubSeq(s, 1, Len(prefix)) = prefix

\* needle in haystack
Contains(haystack, needle) ==
    \E i \in 0..(Len(haystack) - Len(needle)) :
        SubSeq(haystack, i + 1, i + Len(needle)) = needle

\* the positions of s at which sep starts
SeparatorStarts(s, sep) == {i \in 1..Len(s) : StartsWith(Drop(s, i - 1), sep)}

\* s.split(sep) for a non-empty separator: cut at the leftmost separator, go on
\* behind it
RECURSIVE SplitOn(_, _)
SplitOn(s, sep) ==
    IF SeparatorStarts(s, sep) = {} THEN <<s>>
    ELSE LET i == CHOOSE j \in SeparatorStarts(s, sep) :
                      \A k \in SeparatorStarts(s, sep) : j <= k
         IN  <<SubSeq(s, 1, i - 1)>> \o SplitOn(Drop(s, i - 1 + Len(sep)), sep)

\* s.split(): the maximal runs of non-whitespace characters
RECURSIVE Words(_, _)
Words(s, word) ==
    IF s = <<>> THEN (IF word = <<>> THEN <<>> ELSE <<word>>)
    ELSE IF Head(s) \in Whitespace
         THEN (IF word = <<>> THEN <<>> ELSE <<word>>) \o Words(Tail(s), <<>>)
         ELSE Words(Tail(s), Append(word, Head(s)))

\* question_keywords of _find_best_sentence_answer
QuestionKeywords(question) ==
    LET ws == SelectSeq(Words(question, <<>>), LAMBDA w : Len(w) > 2)
    IN  [i \in 1..Len(ws) |-> LowerStr(ws[i])]

\* a score that counts the keywords that are words of the sentence
KeywordScoreWholeWords(sentence, keywords) ==
    LET ws == Words(LowerStr(sentence), <<>>)
    IN  Cardinality({i \in 1..Len(keywords) : \E j \in 1..Len(ws) : ws[j] = keywords[i]})

\* score of one sentence
KeywordScore(sentence, keywords) ==
    Cardinality({i \in 1..Len(keywords) : Contains(LowerStr(sentence), keywords[i])})

\* the loop of _find_best_sentence_answer: the best sentence, <<>> when none scored
RECURSIVE BestSentenceLoop(_, _, _, _)
BestSentenceLoop(rest, keywords, best_sentence, best_score) ==
    IF rest = <<>> THEN best_sentence
    ELSE LET sentence == Head(rest)
         IN  IF Len(Strip(sentence)) < 10
             THEN BestSentenceLoop(Tail(rest), keywords, best_sentence, best_score)
             ELSE IF KeywordScore(sentence, keywords) > best_score
             THEN BestSentenceLoop(Tail(rest), keywords, sentence,
                                   KeywordScore(sentence, keywords))
             ELSE BestSentenceLoop(Tail(rest), keywords, best_sentence, best_score)

\* IndonesianGenerator._find_best_sentence_answer
find_best_sentence_answer(question, context) ==
    LET context_sentences == SplitOn(context, <<".", " ">>)
        best == BestSentenceLoop(context_sentences, QuestionKeywords(question), <<>>, 0)
    IN  IF best # <<>> THEN Text(best)
        ELSE IF context_sentences # <<>> THEN Text(context_sentences[1] \o <<".">>)
        ELSE Fixed(NotFoundMsg)

\* answer.strip() of an answer
StripAnswer(a) == IF "text" \in DOMAIN a THEN Text(Strip(a.text)) ELSE a

\* a confidence that adds the two scores without halving
QaConfidenceSum(start_score, end_score) == (start_score + end_score) * 10

\* confidence = (start_score + end_score) / 2
QaConfidence(start_score, end_score) == (start_score + end_score) * 5

\* a fallback that keeps the confidence of the discarded span
FallbackConfidenceUnreduced(confidence) == confidence

\* confidence = confidence * 0.8
FallbackConfidence(confidence) == (confidence * 8) \div 10

\* an except clause that keeps a confidence for the apology
InferenceErrorConfident == [answer |-> Fixed(GenerationErrorMsg), confidence |-> 7 * ScoreScale]

\* the except clause of generate_qa_answer and of generate_text_answer
InferenceError == [answer |-> Fixed(GenerationErrorMsg), confidence |-> 0]

\* IndonesianGenerator.generate_qa_answer.  inf is what the tokenizer and the
\* model give: raises, or the decoded span and the two maximal probabilities.
generate_qa_answer(question, context, inf) ==
    IF inf.raises
    THEN InferenceError
    ELSE LET confidence == QaConfidence(inf.start_score, inf.end_score)
         IN  IF Len(Strip(inf.span)) < 2
             THEN [answer |-> StripAnswer(find_best_sentence_answer(question, context)),
                   confidence |-> FallbackConfidence(confidence),
                   start_score |-> inf.start_score,
                   end_score |-> inf.end_score]
             ELSE [answer |-> Text(Strip(inf.span)),
                   confidence |-> confidence,
                   start_score |-> inf.start_score,
                   end_score |-> inf.end_score]

\* The generated text is a sequence of characters in which the whole prompt and
\* the marker "JAWABAN:" each count as one symbol.
PromptSymbol == "<prompt>"
MarkerSymbol == "JAWABAN:"

\* generated_text.replace(prompt, "")
RemovePrompt(generated) == SelectSeq(generated, LAMBDA c : c # PromptSymbol)

\* answer.split("JAWABAN:")[-1]
RECURSIVE AfterLastMarker(_)
AfterLastMarker(s) ==
    IF \E i \in 1..Len(s) : s[i] = MarkerSymbol
    THEN AfterLastMarker(Tail(s)) ELSE s

\* "confidence": 0.7
GenerativeConfidence == 7 * ScoreScale

\* IndonesianGenerator.generate_text_answer
generate_text_answer(question, context, inf) ==
    IF inf.raises
    THEN InferenceError
    ELSE [answer |-> Text(Strip(AfterLastMarker(Strip(RemovePrompt(inf.generated))))),
          confidence |-> GenerativeConfidence,
          full_generation |-> inf.generated]

\* the preview length of a source entry
PreviewLen == 100

\* a preview that truncates without marking it
ContentPreviewCut(content) ==
    IF Len(content) > PreviewLen THEN SubSeq(content, 1, PreviewLen) ELSE content

\* doc['content'][:100] + "..." if len(doc['content']) > 100 else doc['content']
ContentPreview(content) ==
    IF Len(content) > PreviewLen
    THEN SubSeq(content, 1, PreviewLen) \o <<".", ".", ".">>
    ELSE content

\* result["sources"]
Sources(context) ==
    [i \in 1..Len(context) |->
        [source |-> Get(context[i], "source", "unknown"),
         content_preview |-> ContentPreview(context[i].content)]]

\* "\n\n".join([doc['content'] for doc in context])
ContextText(context) == Join(ContentsOf(context), <<"\n", "\n">>)

\* response with the three fields every caller reads
NoInfoResponse == [answer |-> Fixed(NoInfoMsg), confidence |-> 0, sources |-> <<>>]
ProcessingErrorResponse ==
    [answer |-> Fixed(ProcessingErrorMsg), confidence |-> 0, sources |-> <<>>]

\* r with r["sources"] = sources
WithSources(r, sources) ==
    [f \in DOMAIN r \cup {"sources"} |-> IF f = "sources" THEN sources ELSE r[f]]

\* IndonesianGenerator.generate.  inferred tells whether a model function ran and
\* mode which of generate_qa_answer and generate_text_answer was called.
generate(query, context, mtype, inf) ==
    IF Strip(ContextText(context)) = <<>>
    THEN [response |-> NoInfoResponse, inferred |-> FALSE, mode |-> "none"]
    ELSE LET result == IF mtype = "qa"
                       THEN generate_qa_answer(query, ContextText(context), inf)
                       ELSE generate_text_answer(query, ContextText(context), inf)
         IN  [response |-> WithSources(result, Sources(context)), inferred |-> TRUE,
              mode |-> IF mtype = "qa" THEN "qa" ELSE "generative"]

----------------------------------------------------------------------------
(* _find_best_sentence_answer on its own *)

MaxPieces == 3   \* sentences of a context

\* questions: one keyword in capitals; two keywords and a word too short to be
\* one; no keyword
FallbackQuestions ==
    {<<"A", "b", "a">>,
     <<"a", "b", "a", " ", "k", "k", " ", "J", "a", "k", "a">>,
     <<"q">>}

\* sentences: 9 characters; 9 characters behind a space; the keyword inside a
\* longer word; the keyword as a word; two keywords, one in capitals; a keyword
\* inside a longer word; 10 characters without a keyword
FallbackSentences ==
    {<<"a", "b", "a", " ", "k", "k", "k", "k", "k">>,
     <<" ", "a", "b", "a", " ", "k", "k", "k", "k", "k">>,
     <<"a", "b", "a", "b", " ", "a", "a", "a", "a", "a", "a">>,
     <<"a", "a", "a", "a", "a", "a", "a", " ", "a", "b", "a">>,
     <<"J", "A", "K", "A", " ", "a", "b", "a", " ", "a", "a">>,
     <<"j", "a", "k", "a", "r", "t", "a", " ", "a", "a", "a">>,
     <<"k", "k", "k", "k", "k", "k", "k", "k", "k", "k">>}

\* the contexts of n sentences, joined by ". "
RECURSIVE FallbackContexts(_)
FallbackContexts(n) ==
    IF n = 1 THEN FallbackSentences
    ELSE {c \o <<".", " ">> \o t : c \in FallbackContexts(n - 1), t \in FallbackSentences}

InitFallback ==
    /\ ChunkerIdle
    /\ IndexUnused

FindBestSentence ==
    /\ Idle
    /\ \E question \in FallbackQuestions, n \in 1..MaxPieces :
         \E context \in FallbackContexts(n) :
            last' = [op |-> "find_best_sentence", question |-> question,
                     context |-> context,
                     result |-> find_best_sentence_answer(question, context)]
    /\ records_before' = records
    /\ UNCHANGED <<chunkerVars, collection, records, next_id, clock, model_type,
                   config_model_type, load_failed, stored_collections>>

NextFallback == FindBestSentence \/ Continue

SpecFallback == InitFallback /\ [][NextFallback]_vars

----------------------------------------------------------------------------
(* IndonesianTextLoader and IndonesianRAGPipeline *)

\* A directory is [exists, files]; a file is [source, content, readable].
File(f, c, ok) == [source |-> f, content |-> c, readable |-> ok]

\* IndonesianTextLoader.load_from_directory: an unreadable file is skipped
load_from_directory(dir) ==
    IF ~dir.exists THEN <<>>
    ELSE LET ok == SelectSeq(dir.files, LAMBDA f : f.readable)
         IN  [i \in 1..Len(ok) |-> TextDoc(ok[i].source, ok[i].content)]

\* what build_index does once the chunks exist
IndexChunks(coll, recs, new_chunks, drawn, now, faults, encode_failed, rejected) ==
    LET texts == ContentsOf(new_chunks)
        embeddings == encode(texts, encode_failed)
        added == add_documents(coll, recs, new_chunks, embeddings, drawn, now,
                               faults, rejected)
    IN  [result |-> ~added.raised,
         records |-> added.records,
         collection |-> added.collection,
         next_id |-> added.next_id,
         calls |-> <<[fn |-> "encode", texts |-> texts],
                     [fn |-> "add_documents", docs |-> new_chunks,
                      embeddings |-> embeddings]>>]

\* the early returns of build_index
EarlyFailure(coll, recs, drawn, calls) ==
    [result |-> FALSE, records |-> recs, collection |-> coll, next_id |-> drawn,
     calls |-> calls]

\* a build that does not look at the number of chunks
NoChunksIgnored(new_chunks) == FALSE

\* if not chunks: return False
NoChunks(new_chunks) == new_chunks = <<>>

\* IndonesianRAGPipeline.build_index
build_index(coll, recs, dir, size, overlap, drawn, now, faults, encode_failed, rejected) ==
    IF ~dir.exists THEN EarlyFailure(coll, recs, drawn, <<>>)
    ELSE LET docs == load_from_directory(dir)
             new_chunks == split_documents(docs, size, overlap)
         IN  IF docs = <<>>
             THEN EarlyFailure(coll, recs, drawn, <<[fn |-> "load"]>>)
             ELSE IF NoChunks(new_chunks)
             THEN EarlyFailure(coll, recs, drawn, <<[fn |-> "load"], [fn |-> "split"]>>)
             ELSE LET done == IndexChunks(coll, recs, new_chunks, drawn, now, faults,
                                          encode_failed, rejected)
                  IN  [done EXCEPT !.calls = <<[fn |-> "load"], [fn |-> "split"]>> \o @]

\* a query that always goes on to the generator
SkipsNever(relevant_docs) == FALSE

\* if not relevant_docs: return the fixed answer
SkipsGeneration(relevant_docs) == relevant_docs = <<>>

\* IndonesianRAGPipeline.query
query(coll, recs, question, n_results, mtype, faults, encode_fails, query_fails, inf) ==
    LET got == retrieve(coll, recs, question, n_results, faults, encode_fails, query_fails)
    IN  IF SkipsGeneration(got.result)
        THEN [response |-> NoInfoResponse, retrieved |-> got.result,
              collection |-> got.collection, generated |-> FALSE, inferred |-> FALSE,
              mode |-> "none", raised |-> FALSE]
        ELSE LET g == generate(question, got.result, mtype, inf)
             IN  [response |-> g.response, retrieved |-> got.result,
                  collection |-> got.collection, generated |-> TRUE,
                  inferred |-> g.inferred, mode |-> g.mode, raised |-> FALSE]

----------------------------------------------------------------------------
(* Inputs of the pipeline operations *)

\* n files of one sentence each; the files of one batch of encode have the same
\* text, those of the next batch the other text
ManyFiles(n) ==
    [i \in 1..n |->
        File("f" \o ToString(i) \o ".txt",
             IF ((i - 1) \div EncodeBatchSize) % 2 = 0 THEN TextA ELSE TextB, TRUE)]

Directories ==
    {[exists |-> FALSE, files |-> <<>>],
     [exists |-> TRUE, files |-> <<>>],
     [exists |-> TRUE, files |-> <<File(Files[1], TextA, FALSE)>>],
     [exists |-> TRUE, files |-> <<File(Files[1], <<".", "\n">>, TRUE)>>],
     [exists |-> TRUE, files |-> <<File(Files[1], <<"a", ".", "a">>, TRUE)>>],
     [exists |-> TRUE, files |-> <<File(Files[1], TextB, TRUE),
                                   File(Files[2], TextA, TRUE)>>],
     [exists |-> TRUE, files |-> ManyFiles(BatchSize + EncodeBatchSize)]}

\* the batch numbers of encode that may fail while dir is indexed: of a
\* directory that fills more than one batch, the first or the last
EncodeFailures(dir) ==
    IF Len(dir.files) > EncodeBatchSize
    THEN {{}, {0}, {(Len(dir.files) - 1) \div EncodeBatchSize}}
    ELSE SUBSET {0}

Spans == {<<>>, <<" ", "J", " ">>, <<"J", "a">>, <<" ", "J", "a", "\n">>}

QaOutcomes ==
    {[raises |-> TRUE]}
    \cup {[raises |-> FALSE, span |-> sp, start_score |-> s, end_score |-> e] :
             sp \in Spans, s \in 1..ScoreScale, e \in 1..ScoreScale}

GenerativeOutcomes ==
    {[raises |-> TRUE],
     [raises |-> FALSE, generated |-> <<PromptSymbol, " ", "a">>],
     [raises |-> FALSE, generated |-> <<"a", MarkerSymbol, " ", "b">>]}

\* what the model of the loaded type can give
Inferences(mtype) == IF mtype = "qa" THEN QaOutcomes ELSE GenerativeOutcomes

MaxBuilds == 2   \* build_index calls that reach add_documents in one run

\* the records one run holds at most
MaxIndexed == BatchSize + EncodeBatchSize + MaxBuilds

\* a chunk content of n characters
LongText(n) == [i \in 1..n |-> "a"]

\* contexts handed to generate directly
Contexts ==
    {<<>>,
     <<[content |-> TextBlank, metadata |-> [source |-> Files[1]], distance |-> 1]>>,
     <<[content |-> TextA, metadata |-> [source |-> Files[1]], distance |-> 0],
       [content |-> TextB, metadata |-> [source |-> Files[2]], distance |-> 1]>>,
     <<[content |-> LongText(PreviewLen + 1), metadata |-> [source |-> Files[1]],
        distance |-> 0],
       [content |-> LongText(PreviewLen), metadata |-> [source |-> Files[2]],
        distance |-> 1],
       [content |-> TextB, metadata |-> [source |-> Files[2]], distance |-> 2]>>}

----------------------------------------------------------------------------
(* The pipeline operations as steps *)

Init ==
    /\ ChunkerIdle
    /\ collection = "handle"
    /\ stored_collections = 1
    /\ records = <<>>
    /\ records_before = <<>>
    /\ next_id = 0
    /\ clock = 0
    /\ config_model_type \in {"qa", "generative"}
    /\ load_failed \in BOOLEAN
    /\ model_type = LoadedModelType(config_model_type, load_failed)
    /\ last = [op |-> "none"]

BuildIndex ==
    /\ Idle
    /\ clock < MaxBuilds
    /\ \E dir \in Directories, faults \in EnsureFaults(collection),
          rejected \in SUBSET {0} :
       \E encode_failed \in EncodeFailures(dir) :
         /\ Len(records) + Len(dir.files) <= MaxIndexed
         /\ LET r == build_index(collection, records, dir, chunk_size, chunk_overlap,
                                 next_id, clock, faults, encode_failed, rejected)
            IN  /\ records' = r.records
                /\ collection' = r.collection
                /\ next_id' = r.next_id
                /\ clock' = IF \E i \in 1..Len(r.calls) :
                                   r.calls[i].fn = "add_documents"
                            THEN clock + 1 ELSE clock
                /\ last' = [op |-> "build_index", dir |-> dir,
                            encode_failed |-> encode_failed, rejected |-> rejected,
                            calls |-> r.calls, result |-> r.result, raised |-> FALSE]
    /\ records_before' = records
    /\ UNCHANGED <<chunkerVars, model_type, config_model_type, load_failed,
                   stored_collections>>

Query ==
    /\ Idle
    /\ \E q \in Questions, k \in 1..MaxK, faults \in EnsureFaults(collection),
          encode_fails \in BOOLEAN, query_fails \in BOOLEAN,
          inf \in Inferences(model_type) :
         LET r == query(collection, records, q, k, model_type, faults,
                        encode_fails, query_fails, inf)
         IN  /\ collection' = r.collection
             /\ last' = [op |-> "query", question |-> q, k |-> k,
                         encode_fails |-> encode_fails, query_fails |-> query_fails,
                         inference |-> inf, retrieved |-> r.retrieved,
                         generated |-> r.generated, inferred |-> r.inferred,
                         mode |-> r.mode, response |-> r.response, raised |-> r.raised]
    /\ records_before' = records
    /\ UNCHANGED <<chunkerVars, records, next_id, clock, model_type, config_model_type, load_failed,
                   stored_collections>>

Generate ==
    /\ Idle
    /\ \E q \in Questions, context \in Contexts, inf \in Inferences(model_type) :
         LET g == generate(q, context, model_type, inf)
         IN  last' = [op |-> "generate", question |-> q, context |-> context,
                      inference |-> inf, inferred |-> g.inferred, mode |-> g.mode,
                      response |-> g.response, raised |-> FALSE]
    /\ records_before' = records
    /\ UNCHANGED <<chunkerVars, collection, records, next_id, clock, model_type,
                   config_model_type, load_failed,
                   stored_collections>>

Next == BuildIndex \/ Query \/ Generate \/ Continue

Spec == Init /\ [][Next]_vars

----------------------------------------------------------------------------
(* Properties of the pipeline *)

FixedAnswers == {Fixed(NoInfoMsg), Fixed(GenerationErrorMsg), Fixed(ProcessingErrorMsg)}

CallsTo(calls, fn) == {i \in 1..Len(calls) : calls[i].fn = fn}

\* C5: when retrieve returns nothing, in particular when the index holds no
\* record, query returns the fixed no-information answer with confidence 0 and no
\* sources, and neither generate nor a model function is invoked.
C5_EmptyRetrievalShortCircuits ==
    (last.op = "query" /\ (last.retrieved = <<>> \/ records = <<>>)) =>
        /\ last.retrieved = <<>>
        /\ last.response = NoInfoResponse
        /\ ~last.generated
        /\ ~last.inferred

C5_Witness ==
    /\ last.op = "query"
    /\ records # <<>>
    /\ last.retrieved = <<>>
    /\ ~last.inference.raises
    /\ last.response.confidence = 0

\* C6: query never raises and returns a record with answer, confidence and
\* sources; when encoding, the store query or the model failed, the answer is one
\* of the fixed messages and the confidence is 0.
C6_QueryAlwaysAnswers ==
    last.op = "query" =>
        /\ ~last.raised
        /\ {"answer", "confidence", "sources"} \subseteq DOMAIN last.response
        /\ (last.encode_fails \/ last.query_fails \/ last.inference.raises) =>
              /\ last.response.answer \in FixedAnswers
              /\ last.response.confidence = 0

C6_Witness ==
    /\ last.op = "query"
    /\ ~last.encode_fails
    /\ ~last.query_fails
    /\ last.inference.raises
    /\ last.inferred
    /\ last.response.answer = Fixed(GenerationErrorMsg)
    /\ last.response.sources # <<>>

\* C7: the confidence of every answer record of the answer selector, reached
\* through query or directly, lies between 0 and 1.
C7_ConfidenceInUnitInterval ==
    last.op \in {"query", "generate"} =>
        /\ last.response.confidence >= 0
        /\ last.response.confidence <= ConfidenceOne

C7_Witness ==
    /\ last.op = "generate"
    /\ model_type = "qa"
    /\ last.inferred
    /\ last.response.confidence = ConfidenceOne

\* C10: build_index never raises.  When the directory is missing, no document is
\* loaded or no chunk results, it returns failure, calls neither the embedder nor
\* add_documents and leaves the records as they were; otherwise it embeds the
\* texts of all chunks and calls add_documents once with all chunks.
C10_BuildIndexFailsFast ==
    last.op = "build_index" =>
        LET docs == load_from_directory(last.dir)
            expected == split_documents(docs, chunk_size, chunk_overlap)
            early == ~last.dir.exists \/ docs = <<>> \/ expected = <<>>
            encodes == CallsTo(last.calls, "encode")
            adds == CallsTo(last.calls, "add_documents")
        IN  /\ ~last.raised
            /\ early =>
                  /\ last.result = FALSE
                  /\ encodes = {}
                  /\ adds = {}
                  /\ records = records_before
            /\ ~early =>
                  /\ Cardinality(encodes) = 1
                  /\ Cardinality(adds) = 1
                  /\ \A i \in encodes : last.calls[i].texts = ContentsOf(expected)
                  /\ \A i \in adds : last.calls[i].docs = expected
                  /\ \A i \in encodes : \A j \in adds : i < j

C10_Witness ==
    /\ last.op = "build_index"
    /\ last.dir.exists
    /\ last.dir.files # <<>>
    /\ last.result = FALSE
    /\ CallsTo(last.calls, "split") # {}
    /\ CallsTo(last.calls, "encode") = {}
    /\ records # <<>>

\* the calls that reached generate_qa_answer or generate_text_answer
Answered == last.op \in {"query", "generate"} /\ last.inferred

\* C11 as stated: the mode that answers is the configured one, whatever happened
\* while the model was loaded.
C11_ModeByConfigurationAlone ==
    Answered => last.mode = config_model_type

\* C11: the mode that answers is the configured one when the model loaded, and
\* span extraction when the load failed; it is the one mode the generator holds
\* since construction, whatever the question and the context.
C11_ModeByConfigurationOrFallback ==
    /\ model_type = (IF load_failed THEN "qa" ELSE config_model_type)
    /\ Answered =>
          /\ last.mode = model_type
          /\ ~load_failed => last.mode = config_model_type
          /\ load_failed => last.mode = "qa"
          /\ (last.mode = "qa") <=> ("start_score" \in DOMAIN last.response
                                     \/ (last.inference.raises /\ model_type = "qa"))
          /\ (last.mode = "generative") <=> ("full_generation" \in DOMAIN last.response
                                     \/ (last.inference.raises /\ model_type = "generative"))

C11_Witness ==
    /\ last.op = "query"
    /\ last.inferred
    /\ config_model_type = "generative"
    /\ load_failed
    /\ last.mode = "qa"
    /\ "start_score" \in DOMAIN last.response

\* the chunks handed to generate by the last call
ContextOf(op) == IF op.op = "query" THEN op.retrieved ELSE op.context

\* C12: every answer produced by either mode from a context that is not blank
\* has one source entry per retrieved chunk, in retrieval order; the preview of a
\* content of at most 100 characters is the content, that of a longer content is
\* its first 100 characters followed by "...".
C12_SourcesPreviewChunks ==
    Answered =>
        LET context == ContextOf(last)
            sources == last.response.sources
        IN  /\ Len(sources) = Len(context)
            /\ \A i \in 1..Len(context) :
                  LET content == context[i].content
                      preview == sources[i].content_preview
                  IN  /\ Len(content) <= 100 => preview = content
                      /\ Len(content) > 100 =>
                            /\ Len(preview) = 103
                            /\ SubSeq(preview, 1, 100) = SubSeq(content, 1, 100)
                            /\ SubSeq(preview, 101, 103) = <<".", ".", ".">>

C12_Witness ==
    /\ last.op = "generate"
    /\ last.inferred
    /\ model_type = "generative"
    /\ Len(last.context) = 3
    /\ Len(last.context[1].content) = 101
    /\ Len(last.context[2].content) = 100
    /\ Len(last.response.sources[1].content_preview) = 103
    /\ last.response.sources[2].content_preview = last.context[2].content
    /\ last.response.sources[3].content_preview = TextB

\* the calls in which the QA model gave a span and two probabilities
SpanDecoded == Answered /\ last.mode = "qa" /\ ~last.inference.raises

\* C14: in span-extraction mode a decoded span of fewer than 2 characters after
\* trimming is replaced by the (trimmed) keyword-sentence fallback and the
\* confidence is 0.8 times the average of the two maximal probabilities; a span
\* of 2 or more characters is returned trimmed with exactly that average.
C14_ShortSpanFallsBack ==
    SpanDecoded =>
        LET inf == last.inference
            answer == last.response.answer
            confidence == last.response.confidence
            context == ContextText(ContextOf(last))
        IN  /\ Len(Strip(inf.span)) < 2 =>
                  /\ answer = StripAnswer(find_best_sentence_answer(last.question, context))
                  /\ 10 * 2 * ScoreScale * confidence
                        = 8 * ConfidenceOne * (inf.start_score + inf.end_score)
            /\ Len(Strip(inf.span)) >= 2 =>
                  /\ answer = Text(Strip(inf.span))
                  /\ 2 * ScoreScale * confidence
                        = ConfidenceOne * (inf.start_score + inf.end_score)

C14_Witness ==
    /\ SpanDecoded
    /\ last.op = "query"
    /\ Len(last.inference.span) = 3
    /\ Len(Strip(last.inference.span)) = 1
    /\ last.inference.start_score = ScoreScale
    /\ last.inference.end_score = ScoreScale
    /\ 10 * last.response.confidence = 8 * ConfidenceOne
    /\ "text" \in DOMAIN last.response.answer

\* the number of keywords that occur somewhere in the lowercased sentence
SubstringScore(sentence, keywords) ==
    LET low == LowerStr(sentence)
    IN  Cardinality({i \in 1..Len(keywords) :
            \E from \in 1..Len(low) :
                /\ from + Len(keywords[i]) - 1 <= Len(low)
                /\ \A d \in 1..Len(keywords[i]) : low[from + d - 1] = keywords[i][d]})

\* The sentence the fallback is to return under a score: of the pieces between
\* ". " that have 10 or more characters after trimming, the first that attains
\* the highest score; the first piece and a period when no piece scores.
ExpectedSentence(question, context, Score(_, _)) ==
    LET pieces == SplitOn(context, <<".", " ">>)
        keywords == QuestionKeywords(question)
        scoring == {i \in 1..Len(pieces) :
                       /\ Len(Strip(pieces[i])) >= 10
                       /\ Score(pieces[i], keywords) > 0}
    IN  IF scoring = {} THEN Text(pieces[1] \o <<".">>)
        ELSE LET top == CHOOSE i \in scoring : \A j \in scoring :
                            \/ Score(pieces[j], keywords) < Score(pieces[i], keywords)
                            \/ /\ Score(pieces[j], keywords) = Score(pieces[i], keywords)
                               /\ i <= j
             IN  Text(pieces[top])

\* C15 as stated: the sentences are scored by the question keywords they contain
\* as whole words.
C15_WholeWordScoring ==
    last.op = "find_best_sentence" =>
        last.result = ExpectedSentence(last.question, last.context, KeywordScoreWholeWords)

\* C15: the fallback splits the context on ". ", skips the sentences of fewer
\* than 10 characters after trimming, scores each other sentence by the number of
\* question keywords (the words of the question longer than 2 characters, in
\* lower case) that occur anywhere in the lowercased sentence, and returns the
\* first sentence with the highest score; when no sentence scores it returns the
\* first sentence of the context followed by a period.
C15_SubstringScoring ==
    last.op = "find_best_sentence" =>
        last.result = ExpectedSentence(last.question, last.context, SubstringScore)

\* the keyword occurs only inside a longer word of the first sentence and is a
\* word of the second: the first is returned
C15_Witness ==
    /\ last.op = "find_best_sentence"
    /\ Len(SplitOn(last.context, <<".", " ">>)) = 3
    /\ Len(QuestionKeywords(last.question)) = 1
    /\ KeywordScoreWholeWords(SplitOn(last.context, <<".", " ">>)[1],
                              QuestionKeywords(last.question)) = 0
    /\ KeywordScoreWholeWords(SplitOn(last.context, <<".", " ">>)[2],
                              QuestionKeywords(last.question)) = 1
    /\ last.result = Text(SplitOn(last.context, <<".", " ">>)[1])

\* C16: create_chunks accumulates while the word count stays at or below
\* chunk_size: sentences whose words number at most chunk_size, also exactly
\* chunk_size, give one chunk, the sentences joined by spaces in order; no
\* sentence gives no chunk.
C16_AccumulatesUpToChunkSize ==
    phase = "chunks_done" =>
        /\ sentences = <<>> => chunks = <<>>
        /\ (sentences # <<>> /\ SumWords(sentences) <= chunk_size) =>
              chunks = <<Join(sentences, <<" ">>)>>

C16_Witness ==
    /\ phase = "chunks_done"
    /\ Len(sentences) = 2
    /\ sentences[1] # sentences[2]
    /\ SumWords(sentences) = chunk_size
    /\ Len(chunks) = 1
    /\ Len(chunks[1]) = 3

\* the documents on which split_documents fails
Failing(docs) == {d \in 1..Len(docs) : ~docs[d].is_text}

\* C17: a document whose processing fails does not make split_documents raise;
\* it contributes no chunk, and the result is the one split_documents gives for
\* the other documents alone: their chunks with the same content, chunk_id and
\* total_chunks, in the same order.
C17_FailuresIsolated ==
    (phase = "split_done" /\ Failing(documents) # {}) =>
        /\ \A d \in Failing(documents) : ChunksOf(documents[d].source) = <<>>
        /\ all_chunks = split_documents(SelectSeq(documents, LAMBDA doc : doc.is_text),
                                        chunk_size, chunk_overlap)

C17_Witness ==
    /\ phase = "split_done"
    /\ Len(documents) = 2
    /\ Failing(documents) = {1}
    /\ Len(all_chunks) >= 2
    /\ all_chunks[1].source = documents[2].source
    /\ all_chunks[2].chunk_id = 1

\* C18: every chunk create_chunks emits has at most chunk_size words, unless it
\* is a single sentence that has more than chunk_size words by itself.
C18_ChunksBounded ==
    phase = "chunks_done" =>
        \A i \in 1..Len(chunks) :
            \/ WordCount(chunks[i]) <= chunk_size
            \/ /\ Len(buffers[i]) = 1
               /\ WordCount(buffers[i][1]) > chunk_size

\* C19: every record build_index stores carries the embedding of its own
\* content, also when encode failed on some of its batches.
C19_EmbeddingOfOwnChunk ==
    \A i \in 1..Len(records) : records[i].embedding = Embed(records[i].content)

\* the position in the sentence list of the first sentence of chunk i, when
\* every chunk starts with the sentences carried over from the one before
RECURSIVE ChunkStart(_, _, _)
ChunkStart(bufs, overlap, i) ==
    IF i = 1 THEN 1
    ELSE ChunkStart(bufs, overlap, i - 1) + Len(bufs[i - 1])
             - Min(overlap, Len(bufs[i - 1]))

ChunkEnd(bufs, overlap, i) == ChunkStart(bufs, overlap, i) + Len(bufs[i]) - 1

\* C20: create_chunks loses and reorders nothing: each chunk is a contiguous
\* run of the sentences in their order, every sentence is in some chunk, and
\* the first sentence of a chunk that is not carried over is the one that
\* follows the last sentence of the chunk before.
C20_NothingLostOrReordered ==
    phase = "chunks_done" =>
        LET n == Len(buffers)
            first(i) == ChunkStart(buffers, chunk_overlap, i)
            last_of(i) == ChunkEnd(buffers, chunk_overlap, i)
        IN  /\ Len(chunks) = n
            /\ \A i \in 1..n :
                  /\ chunks[i] = JoinChunk(buffers[i])
                  /\ buffers[i] # <<>>
                  /\ last_of(i) <= Len(sentences)
                  /\ buffers[i] = SubSeq(sentences, first(i), last_of(i))
            /\ \A p \in 1..Len(sentences) :
                  \E i \in 1..n : first(i) <= p /\ p <= last_of(i)
            /\ \A i \in 1..(n - 1) :
                  LET carried == Min(chunk_overlap, Len(buffers[i]))
                  IN  /\ Len(buffers[i + 1]) > carried
                      /\ buffers[i + 1][carried + 1] = sentences[last_of(i) + 1]

C20_Witness ==
    /\ phase = "chunks_done"
    /\ chunk_overlap = 1
    /\ Len(sentences) = 4
    /\ sentences[1] # sentences[2]
    /\ sentences[3] # sentences[2]
    /\ Len(buffers) = 3
    /\ Len(buffers[2]) = 2
    /\ buffers[3] = SubSeq(sentences, 3, 4)

\* C21: in every answer built from a non-empty retrieval, the source of the
\* i-th sources entry is the source recorded in the metadata of the i-th
\* retrieved record.
C21_SourceFromMetadata ==
    Answered =>
        LET context == ContextOf(last)
            sources == last.response.sources
        IN  /\ Len(sources) = Len(context)
            /\ \A i \in 1..Len(context) :
                  sources[i].source = context[i].metadata.source

====
